---- MODULE Spec2Model ----
(***************************************************************************)
(* Verification model of the cgm-data-processor alignment and gap-analysis *)
(* core: CGMProcessor.process_type (rounding, timeline, bounded            *)
(* interpolation, clipping), Aligner.align (timeline validation and the    *)
(* per-type alignment strategies), the gap detector and the meal-quality   *)
(* classifier.                                                             *)
(*                                                                         *)
(* Time is counted in whole minutes from an epoch-aligned origin.  A       *)
(* glucose value is an exact rational held as an integer number of         *)
(* 1/Scale mg/dL, so that linear interpolation is computed exactly.        *)
(***************************************************************************)
EXTENDS Integers, Sequences, FiniteSets, TLC

VARIABLES
    pc,                   \* which component is at which position
    raw_cgm,              \* CGM rows handed to process_type: <<[t, v], ...>>
    interpolation_limit,  \* process_type's interpolation_limit argument
    reindexed,            \* primary column on full_index, before gap handling
    filled,               \* primary column after the gap-handling block
    cgm_primary,          \* primary column after clipping (the output column)
    cgm_start,            \* first instant of full_index
    interpolated,         \* the per-point interpolated flag
    reference,            \* Aligner.align: rows <<[t, v], ...>> of reference_df
    ref_is_datetime,      \* whether reference_df.index is a DatetimeIndex
    freq,                 \* the freq argument, in minutes
    carbs_df,             \* the cleaned carbohydrate table: rows <<[t, v], ...>>
    insulin_df,           \* the cleaned insulin table: rows <<[t, dose, is_basal, is_bolus], ...>>
    notes_df,             \* the cleaned notes table: rows <<[t, v], ...>>
    cleaned,              \* the cleaned tables as they were handed in (never changed)
    validation,           \* how _validate_timeline ended: "none", "ok", or its exception
    align_result,         \* "none", "ok", or the exception align raised
    aligned,              \* the aligned table align returned, NoTable when none
    gap_col,              \* analyse_glucose_gaps: the aligned reference column
    gap_index,            \* the instants of that column
    gaps_df,              \* the gap inventory: <<[start_time, end_time, length_minutes], ...>>
    largest_gaps,         \* the longest gaps of the inventory, longest first
    meal_table,           \* analyse_meal_data: the aligned table [index, glucose, carbs]
    meal_gaps,            \* the gap inventory of that table
    config,               \* the MealAnalysisConfig
    analysed,             \* the annotation layer: one record per meal event
    meal_stats,           \* get_meal_statistics of the annotation layer
    last_run,             \* what the previous call of the classifier returned
    glucose_in,           \* unit conversion: a glucose value, in whole mg/dL
    as_mmol,              \* that value in mmol/L, in units of 1/10^4
    back_mgdl,            \* and back in mg/dL: [whole, e8], e8 in units of 1/10^8
    insulin_raw,          \* InsulinProcessor.process_type: rows <<[t, value, meta], ...>>
    bolus_limit,          \* its bolus_limit argument, in tenths of a unit
    max_limit,            \* its max_limit argument, in tenths of a unit
    insulin_result,       \* result_df: rows <<[t, dose, is_bolus, is_basal, type], ...>>
    carbs_raw,            \* CarbsProcessor.process_type: combined_df, rows <<[t, primary, second], ...>>
    carbs_result,         \* combined_df after the cleanup
    stages,               \* a pipeline run: the stages that have acted, in order
    type_processors,      \* DataProcessor._type_processors, the class attribute
    resolved              \* per DataProcessor instance: what get_processor_for_type returned

cgm_vars == <<raw_cgm, interpolation_limit, reindexed, filled, cgm_primary, cgm_start,
              interpolated>>

align_vars ==
    <<reference, ref_is_datetime, freq, carbs_df, insulin_df, notes_df, cleaned, validation,
      align_result, aligned>>

gap_vars == <<gap_col, gap_index, gaps_df, largest_gaps>>

meal_vars == <<meal_table, meal_gaps, config, analysed, meal_stats, last_run>>

unit_vars == <<glucose_in, as_mmol, back_mgdl>>

insulin_vars == <<insulin_raw, bolus_limit, max_limit, insulin_result>>

\* the cleaners and the processor registry
carb_vars == <<carbs_raw, carbs_result>>

pipeline_vars == <<stages>>

registry_vars == <<type_processors, resolved>>

aux_vars == <<insulin_vars, carb_vars, pipeline_vars, registry_vars>>

vars == <<pc, cgm_vars, align_vars, gap_vars, meal_vars, unit_vars, aux_vars>>

\* the insulin cleaner's variables while another component runs
IdleInsulin ==
    /\ insulin_raw = <<>>
    /\ bolus_limit = 0
    /\ max_limit = 0
    /\ insulin_result = <<>>

\* the carbohydrate cleaner's variables while another component runs
IdleCarbs ==
    /\ carbs_raw = <<>>
    /\ carbs_result = <<>>

\* the pipeline's record of stages while a component runs on its own
IdlePipeline == stages = <<>>

\* the processor registry's variables while a component runs on its own
IdleRegistry ==
    /\ type_processors = <<>>
    /\ resolved = <<>>

\* the cleaners' and the registry's variables while another component runs
IdleAux ==
    /\ IdleInsulin
    /\ IdleCarbs
    /\ IdlePipeline
    /\ IdleRegistry

----------------------------------------------------------------------------
(* Bounds of the model *)

\* longest CGM timeline, in grid instants
MaxLen == 7

\* largest interpolation_limit tried
MaxLimit == 4

\* timestamps of reference rows and treatment events lie in 0..MaxTime minutes
MaxTime == 5

\* longest reference table tried with an arbitrary (unsorted, repeating) index
MaxRefLen == 4

\* most rows of one cleaned treatment table
MaxEvents == 2

\* longest aligned column handed to the gap detector, in grid instants
MaxGapCol == 8

\* glucose may be missing only at the first MaxPat instants of a meal table
MaxPat == 10

\* number of records in the list of the longest gaps
MaxLargest == 3

\* largest glucose value converted, in whole mg/dL
MaxGlucose == 400

----------------------------------------------------------------------------
(* Numbers *)

\* np.nan, the missing value of a numeric column
NaN == -1

\* the "5min" grid of CGMProcessor, in minutes
GridMinutes == 5

RECURSIVE GCD(_, _)
GCD(a, b) == IF b = 0 THEN a ELSE GCD(b, a % b)

LCM(a, b) == (a * b) \div GCD(a, b)

RECURSIVE LcmUpTo(_)
LcmUpTo(n) == IF n <= 1 THEN 1 ELSE LCM(n, LcmUpTo(n - 1))

\* glucose values are integers in units of 1/Scale mg/dL: hundredths for the
\* clip bounds, and every denominator linear interpolation can produce
Scale == 100 * LcmUpTo(MaxLen)

\* raw sensor readings, mg/dL
Readings == {30, 400}

Max(S) == CHOOSE x \in S : \A y \in S : y <= x

Min(S) == CHOOSE x \in S : \A y \in S : x <= y

----------------------------------------------------------------------------
(* CGMProcessor.process_type *)

\* DatetimeIndex.round(freq): nearest multiple of freq, ties to the even multiple
Round(t, f) ==
    LET q == t \div f
        r == t % f
    IN  IF 2 * r < f THEN q * f
        ELSE IF 2 * r > f THEN (q + 1) * f
        ELSE IF q % 2 = 0 THEN q * f ELSE (q + 1) * f

\* combined_df.index = combined_df.index.round("5min")
RoundIndex(rows) == [i \in 1..Len(rows) |-> [t |-> Round(rows[i].t, GridMinutes), v |-> rows[i].v]]

RECURSIVE SumOver(_, _)
SumOver(f, S) ==
    IF S = {} THEN 0
    ELSE LET x == CHOOSE y \in S : TRUE IN f[x] + SumOver(f, S \ {x})

SeqSum(seq) == SumOver(seq, DOMAIN seq)

\* groupby(level=0).mean() at one instant: the mean of the non-NaN values there,
\* NaN when there is none
MeanAt(rows, t) ==
    LET here == {i \in 1..Len(rows) : rows[i].t = t /\ rows[i].v # NaN}
    IN  IF here = {} THEN NaN
        ELSE SumOver([i \in 1..Len(rows) |-> rows[i].v], here) \div Cardinality(here)

\* pd.date_range(start, end, freq): start, start + freq, ... not beyond end
DateRange(start, end, f) == [i \in 1..((end - start) \div f + 1) |-> start + (i - 1) * f]

\* the rounded, averaged rows put on the complete timeline; an instant without
\* a row holds NaN
Reindex(rows, index) ==
    [i \in 1..Len(index) |->
        IF \E j \in 1..Len(rows) : rows[j].t = index[i] THEN MeanAt(rows, index[i]) ELSE NaN]

\* gap_groups = (~combined_df[col].isna()).cumsum()
GapGroups(col) == [i \in 1..Len(col) |-> Cardinality({j \in 1..i : col[j] # NaN})]

\* gap_size = combined_df[combined_df[col].isna()].groupby(gap_groups).size()
GapSize(col, g) == Cardinality({i \in 1..Len(col) : col[i] = NaN /\ GapGroups(col)[i] = g})

\* large_gaps = gap_size[gap_size > interpolation_limit].index
LargeGaps(col, limit) == {g \in 0..Len(col) : GapSize(col, g) > limit}

\* last position before i that holds a value, 0 when there is none
PrevValid(col, i) ==
    LET S == {j \in 1..(i - 1) : col[j] # NaN} IN IF S = {} THEN 0 ELSE Max(S)

\* first position after i that holds a value, 0 when there is none
NextValid(col, i) ==
    LET S == {j \in (i + 1)..Len(col) : col[j] # NaN} IN IF S = {} THEN 0 ELSE Min(S)

\* interpolation that stops one position short of the limit
InterpolateShort(col, limit) ==
    [i \in 1..Len(col) |->
        IF col[i] # NaN THEN col[i]
        ELSE LET a == PrevValid(col, i)
                 b == NextValid(col, i)
             IN  IF a = 0 \/ i - a >= limit THEN NaN
                 ELSE IF b = 0 THEN col[a]
                 ELSE col[a] + ((col[b] - col[a]) * (i - a)) \div (b - a)]

\* Series.interpolate(method="linear", limit=limit, limit_direction="forward"):
\* interpolation that also fills backwards from the first known value
InterpolateBothWays(col, limit) ==
    [i \in 1..Len(col) |->
        IF col[i] # NaN THEN col[i]
        ELSE LET a == PrevValid(col, i)
                 b == NextValid(col, i)
             IN  IF a = 0 THEN (IF b # 0 /\ b - i <= limit THEN col[b] ELSE NaN)
                 ELSE IF i - a > limit THEN NaN
                 ELSE IF b = 0 THEN col[a]
                 ELSE col[a] + ((col[b] - col[a]) * (i - a)) \div (b - a)]

\* a missing value at most `limit` positions after a known one is filled, on the
\* line through the known values around it, or with the last known value when
\* none follows; missing values before the first known one are left alone
Interpolate(col, limit) ==
    [i \in 1..Len(col) |->
        IF col[i] # NaN THEN col[i]
        ELSE LET a == PrevValid(col, i)
                 b == NextValid(col, i)
             IN  IF a = 0 \/ i - a > limit THEN NaN
                 ELSE IF b = 0 THEN col[a]
                 ELSE col[a] + ((col[b] - col[a]) * (i - a)) \div (b - a)]

\* for gap_group in large_gaps:
\*     mask = (gap_groups == gap_group) & combined_df[col].isna()
\*     combined_df.loc[mask, col] = np.nan
\* gap_groups was taken before interpolating, combined_df[col] is read after it
ResetLargeGaps(col, gap_groups, large_gaps) ==
    [i \in 1..Len(col) |->
        IF gap_groups[i] \in large_gaps /\ col[i] = NaN THEN NaN ELSE col[i]]

\* the gap-handling block of process_type
GapHandling(col, limit) ==
    LET gap_groups == GapGroups(col)
        large_gaps == LargeGaps(col, limit)
    IN  ResetLargeGaps(Interpolate(col, limit), gap_groups, large_gaps)

\* clip bounds in 1/Scale mg/dL: 39.64 and 360.36
ClipLower == 3964 * (Scale \div 100)

ClipUpper == 36036 * (Scale \div 100)

\* validation that discards a value outside the valid range
ClipDrop(col) ==
    [i \in 1..Len(col) |->
        IF col[i] = NaN \/ col[i] < ClipLower \/ col[i] > ClipUpper THEN NaN ELSE col[i]]

\* combined_df[col].clip(lower=39.64, upper=360.36); NaN stays NaN
Clip(col) ==
    [i \in 1..Len(col) |->
        IF col[i] = NaN THEN NaN
        ELSE IF col[i] < ClipLower THEN ClipLower
        ELSE IF col[i] > ClipUpper THEN ClipUpper
        ELSE col[i]]

\* the flag that marks every point that was missing after reindexing, filled
\* or not
MissingFlags(before, after) == [i \in 1..Len(before) |-> before[i] = NaN]

\* the interpolated flag: the point was missing and the pass gave it a value
InterpolatedFlags(before, after) ==
    [i \in 1..Len(before) |-> before[i] = NaN /\ after[i] # NaN]

\* marks a grid instant for which the export holds no row
Absent == NaN - 1

IsRow(r) == r.v # Absent

\* the rows a sensor export holds, oldest first: at most one row per grid
\* instant, the first and the last instant always present; a row holds a
\* reading, and the first or last row may hold NaN instead
CgmInputs(max_len) ==
    UNION {
        { SelectSeq([i \in 1..n |->
                        [t |-> GridMinutes * (i - 1),
                         v |-> IF p[i] \in Readings THEN p[i] * Scale ELSE p[i]]],
                    IsRow)
          : p \in { q \in [1..n -> Readings \cup {NaN, Absent}] :
                      /\ q[1] # Absent
                      /\ q[n] # Absent
                      /\ \A i \in 2..(n - 1) : q[i] # NaN } }
        : n \in 1..max_len }

\* the CGM processor's variables while another component runs
IdleCGM ==
    /\ raw_cgm = <<>>
    /\ interpolation_limit = 0
    /\ reindexed = <<>>
    /\ filled = <<>>
    /\ cgm_primary = <<>>
    /\ cgm_start = 0
    /\ interpolated = <<>>

\* no aligned table
NoTable ==
    [index |-> <<>>, cgm |-> <<>>, carbs |-> <<>>, basal |-> <<>>, bolus |-> <<>>, notes |-> <<>>]

\* the aligner's variables while another component runs
IdleAlign ==
    /\ reference = <<>>
    /\ ref_is_datetime = TRUE
    /\ freq = 0
    /\ carbs_df = <<>>
    /\ insulin_df = <<>>
    /\ notes_df = <<>>
    /\ cleaned = [carbs |-> <<>>, insulin |-> <<>>, notes |-> <<>>]
    /\ validation = "none"
    /\ align_result = "none"
    /\ aligned = NoTable

\* the gap detector's variables while another component runs
IdleGaps ==
    /\ gap_col = <<>>
    /\ gap_index = <<>>
    /\ gaps_df = <<>>
    /\ largest_gaps = <<>>

\* the unit conversion's variables while another component runs
IdleUnits ==
    /\ glucose_in = 0
    /\ as_mmol = 0
    /\ back_mgdl = [whole |-> 0, e8 |-> 0]

\* the meal classifier's variables while another component runs
IdleMeals ==
    /\ meal_table = [index |-> <<>>, glucose |-> <<>>, carbs |-> <<>>]
    /\ meal_gaps = <<>>
    /\ config = [window_minutes |-> 0]
    /\ analysed = <<>>
    /\ meal_stats = [total_meals |-> 0]
    /\ last_run = <<>>

InitCGM ==
    /\ pc = "cgm"
    /\ IdleAlign
    /\ IdleGaps
    /\ IdleMeals
    /\ IdleUnits
    /\ IdleAux
    /\ raw_cgm \in CgmInputs(MaxLen)
    /\ interpolation_limit \in 1..MaxLimit
    /\ reindexed = <<>>
    /\ filled = <<>>
    /\ cgm_primary = <<>>
    /\ cgm_start = 0
    /\ interpolated = <<>>

\* process_type on the primary column: round, average, complete the timeline,
\* handle gaps, clip
ProcessType ==
    /\ pc = "cgm"
    /\ Len(raw_cgm) > 0
    /\ LET rows == RoundIndex(raw_cgm)
           times == {rows[i].t : i \in 1..Len(rows)}
           full_index == DateRange(Min(times), Max(times), GridMinutes)
       IN  /\ reindexed' = Reindex(rows, full_index)
           /\ cgm_start' = Min(times)
    /\ filled' = GapHandling(reindexed', interpolation_limit)
    /\ cgm_primary' = Clip(filled')
    /\ interpolated' = InterpolatedFlags(reindexed', filled')
    /\ pc' = "cgm_done"
    /\ UNCHANGED <<raw_cgm, interpolation_limit, align_vars, gap_vars, meal_vars, aux_vars, unit_vars>>

NextCGM == ProcessType

SpecCGM == InitCGM /\ [][NextCGM]_vars

----------------------------------------------------------------------------
(* Aligner *)

\* the alignment frequencies tried, in minutes
Freqs == {2, 3}

\* the glucose readings of reference tables, mg/dL
RefReadings == {100}

RefReading == CHOOSE v \in RefReadings : TRUE

Times(rows) == {rows[i].t : i \in 1..Len(rows)}

\* reference_data.index.is_monotonic_increasing: no timestamp is followed by a
\* smaller one (equal neighbours are accepted)
IsMonotonicIncreasing(rows) == \A i \in 1..(Len(rows) - 1) : rows[i].t <= rows[i + 1].t

\* index.to_series().diff(), without its leading NaT
TimeDiffs(rows) == [i \in 1..(Len(rows) - 1) |-> rows[i + 1].t - rows[i].t]

\* Series.mode(): the most frequent values, ascending
Modes(diffs) ==
    LET Count(d) == Cardinality({i \in 1..Len(diffs) : diffs[i] = d})
        vals == {diffs[i] : i \in 1..Len(diffs)}
    IN  {d \in vals : \A e \in vals : Count(e) <= Count(d)}

\* validation that never compares the modal spacing with the frequency
ValidateTimelineNoFreq(rows, is_datetime, f) ==
    IF Len(rows) = 0 THEN "AlignmentError"
    ELSE IF ~is_datetime THEN "AlignmentError"
    ELSE IF ~IsMonotonicIncreasing(rows) THEN "AlignmentError"
    ELSE "ok"

\* Aligner._validate_timeline: "ok" when it returns, else the exception raised
ValidateTimeline(rows, is_datetime, f) ==
    IF Len(rows) = 0 THEN "AlignmentError"
    ELSE IF ~is_datetime THEN "AlignmentError"
    ELSE IF ~IsMonotonicIncreasing(rows) THEN "AlignmentError"
    ELSE IF Modes(TimeDiffs(rows)) = {} THEN "KeyError"
    ELSE IF Min(Modes(TimeDiffs(rows))) # f THEN "AlignmentError"
    ELSE "ok"

\* df.index = df.index.round(freq), on the table handed in
RoundRows(rows, f) == [i \in 1..Len(rows) |-> [rows[i] EXCEPT !.t = Round(rows[i].t, f)]]

\* the label of the resample(freq) bin a timestamp falls in
BinLabel(t, f) == (t \div f) * f

\* the resampled sums reindexed without fillna(0): null where no value falls
ResampleSumAtNoFill(rows, val, f, t) ==
    LET here == {i \in 1..Len(rows) : BinLabel(rows[i].t, f) = t}
    IN  IF here = {} THEN NaN ELSE SumOver(val, here)

\* series.resample(freq).sum() read at one instant and reindexed with
\* fillna(0): the sum of the values whose bin carries that label, 0 when the
\* resampled series has no such label
ResampleSumAt(rows, val, f, t) ==
    SumOver(val, {i \in 1..Len(rows) : BinLabel(rows[i].t, f) = t})

\* Aligner._align_carbs, given the table after its index was rounded
AlignCarbs(rows, reference_index, f) ==
    [i \in 1..Len(reference_index) |->
        ResampleSumAt(rows, [j \in 1..Len(rows) |-> rows[j].v], f, reference_index[i])]

\* Aligner._align_insulin: the basal column
AlignBasal(rows, reference_index, f) ==
    [i \in 1..Len(reference_index) |->
        ResampleSumAt(rows, [j \in 1..Len(rows) |-> IF rows[j].is_basal THEN rows[j].dose ELSE 0],
                      f, reference_index[i])]

\* Aligner._align_insulin: the bolus column
AlignBolus(rows, reference_index, f) ==
    [i \in 1..Len(reference_index) |->
        ResampleSumAt(rows, [j \in 1..Len(rows) |-> IF rows[j].is_bolus THEN rows[j].dose ELSE 0],
                      f, reference_index[i])]

\* the notes column reindexed with fillna(0), as the treatment columns are
AlignNotesFilled(rows, reference_index, f) ==
    [i \in 1..Len(reference_index) |->
        LET here == {j \in 1..Len(rows) : BinLabel(rows[j].t, f) = reference_index[i]}
        IN  IF here = {} THEN 0 ELSE rows[Max(here)].v]

\* Aligner._align_notes, given the table after its index was rounded: the last
\* note of each interval, null where the interval has none
AlignNotes(rows, reference_index, f) ==
    [i \in 1..Len(reference_index) |->
        LET here == {j \in 1..Len(rows) : BinLabel(rows[j].t, f) = reference_index[i]}
        IN  IF here = {} THEN NaN ELSE rows[Max(here)].v]

\* the complete timeline: instants spaced freq apart from reference-min to
\* reference-max
Timeline(rows, f) == DateRange(Min(Times(rows)), Max(Times(rows)), f)

HasDuplicateIndex(rows) == \E i, j \in 1..Len(rows) : i # j /\ rows[i].t = rows[j].t

\* the reference series put on the timeline, its nulls kept
ReindexReference(rows, timeline) ==
    [i \in 1..Len(timeline) |->
        IF \E j \in 1..Len(rows) : rows[j].t = timeline[i]
        THEN (CHOOSE r \in {rows[j] : j \in 1..Len(rows)} : r.t = timeline[i]).v
        ELSE NaN]

\* the rows of a table with the given index, oldest first
RowsOf(T, row(_)) ==
    [i \in 1..Cardinality(T) |-> row(CHOOSE x \in T : Cardinality({y \in T : y < x}) = i - 1)]

\* grams of the carbohydrate entry made at minute t
Grams(t) == 10 + t

\* units of the insulin dose given at minute t
Units(t) == 1 + t

CarbRow(t) == [t |-> t, v |-> Grams(t)]

\* cleaned carbohydrate tables: unique timestamps
CarbTables == {RowsOf(T, CarbRow) : T \in {S \in SUBSET (0..MaxTime) : Cardinality(S) <= MaxEvents}}

\* cleaned insulin tables: unique timestamps, every dose basal or bolus
InsulinTables ==
    UNION { { [i \in 1..Len(base) |->
                 [t |-> base[i].t, dose |-> Units(base[i].t),
                  is_basal |-> base[i].t \in B, is_bolus |-> base[i].t \notin B]]
              : B \in SUBSET Times(base) }
            : base \in {RowsOf(T, CarbRow) : T \in {S \in SUBSET (0..MaxTime) : Cardinality(S) <= 1}} }

\* the note written at minute t
NoteRow(t) == [t |-> t, v |-> 1 + t]

\* cleaned notes tables: unique timestamps
NotesTables == {RowsOf(T, NoteRow) : T \in {S \in SUBSET (0..MaxTime) : Cardinality(S) <= 1}}

\* the glucose value of a reference row: a reading, or null at minutes 3, 7, ...
RefValue(t) == IF t % 4 = 3 THEN NaN ELSE RefReading

\* reference tables with a sorted index without repeats; a row holds a reading
\* or a null
SortedReferences ==
    {RowsOf(T, LAMBDA t : [t |-> t, v |-> RefValue(t)]) : T \in SUBSET (0..MaxTime)}

\* reference tables with any index
AnyReferences(max_rows) ==
    UNION { { [i \in 1..n |-> [t |-> ix[i], v |-> RefReading]] : ix \in [1..n -> 0..MaxTime] }
            : n \in 0..max_rows }

InitAlign ==
    /\ pc = "align"
    /\ IdleCGM
    /\ IdleGaps
    /\ IdleMeals
    /\ IdleUnits
    /\ IdleAux
    /\ freq \in Freqs
    /\ \/ /\ reference \in AnyReferences(MaxRefLen)
          /\ ref_is_datetime \in BOOLEAN
          /\ carbs_df = <<>>
          /\ insulin_df = <<>>
          /\ notes_df = <<>>
       \/ /\ reference \in SortedReferences
          /\ ref_is_datetime = TRUE
          /\ carbs_df \in CarbTables
          /\ insulin_df \in InsulinTables
          /\ notes_df \in IF insulin_df = <<>> /\ Len(carbs_df) <= 1 THEN NotesTables ELSE {<<>>}
    /\ cleaned = [carbs |-> carbs_df, insulin |-> insulin_df, notes |-> notes_df]
    /\ validation = "none"
    /\ align_result = "none"
    /\ aligned = NoTable

\* Aligner.align: validate the reference, build the timeline, put the reference
\* on it, align every treatment table that was handed in
Align ==
    /\ pc = "align"
    /\ pc' = "align_done"
    /\ UNCHANGED <<cgm_vars, gap_vars, meal_vars, aux_vars, unit_vars, reference, ref_is_datetime, freq, cleaned>>
    /\ validation' = ValidateTimeline(reference, ref_is_datetime, freq)
    /\ LET status == ValidateTimeline(reference, ref_is_datetime, freq)
       IN  IF status # "ok"
           THEN /\ align_result' = status
                /\ aligned' = NoTable
                /\ UNCHANGED <<carbs_df, insulin_df, notes_df>>
           ELSE IF HasDuplicateIndex(reference)
           THEN /\ align_result' = "ValueError"
                /\ aligned' = NoTable
                /\ UNCHANGED <<carbs_df, insulin_df, notes_df>>
           ELSE LET timeline == Timeline(reference, freq)
                    carbs == RoundRows(carbs_df, freq)
                    insulin == RoundRows(insulin_df, freq)
                    notes == RoundRows(notes_df, freq)
                IN  /\ carbs_df' = carbs
                    /\ insulin_df' = insulin
                    /\ notes_df' = notes
                    /\ align_result' = "ok"
                    /\ aligned' =
                          [index |-> timeline,
                           cgm |-> ReindexReference(reference, timeline),
                           carbs |-> IF carbs = <<>> THEN <<>> ELSE AlignCarbs(carbs, timeline, freq),
                           basal |-> IF insulin = <<>> THEN <<>> ELSE AlignBasal(insulin, timeline, freq),
                           bolus |-> IF insulin = <<>> THEN <<>> ELSE AlignBolus(insulin, timeline, freq),
                           notes |-> IF notes = <<>> THEN <<>> ELSE AlignNotes(notes, timeline, freq)]

NextAlign == Align

SpecAlign == InitAlign /\ [][NextAlign]_vars

----------------------------------------------------------------------------
(* Gap detector *)

\* a gap record that ends at its last missing instant
GapRecordNoStep(index, step, first, last) ==
    [start_time |-> index[first],
     end_time |-> index[last],
     length_minutes |-> (last - first) * step]

\* a gap record whose length is the time from the first to the last missing
\* instant of the run
GapRecordSpan(index, step, first, last) ==
    [start_time |-> index[first],
     end_time |-> index[last] + step,
     length_minutes |-> index[last] - index[first]]

\* one gap record for the run of missing values at positions first..last
GapRecord(index, step, first, last) ==
    [start_time |-> index[first],
     end_time |-> index[last] + step,
     length_minutes |-> (last - first + 1) * step]

\* the scan over the column from position i on; open is the position where the
\* run of missing values being read began, 0 when the value before i is present
RECURSIVE ScanGaps(_, _, _, _, _, _)
ScanGaps(col, index, step, i, open, acc) ==
    IF i > Len(col)
    THEN IF open = 0 THEN acc ELSE Append(acc, GapRecord(index, step, open, Len(col)))
    ELSE IF col[i] = NaN
    THEN ScanGaps(col, index, step, i + 1, IF open = 0 THEN i ELSE open, acc)
    ELSE ScanGaps(col, index, step, i + 1, 0,
                  IF open = 0 THEN acc ELSE Append(acc, GapRecord(index, step, open, i - 1)))

\* analyse_glucose_gaps: the gap inventory of an aligned reference column, one
\* record per maximal run of missing values, in time order
GapInventory(col, index, step) == ScanGaps(col, index, step, 1, 0, <<>>)

\* aligned reference columns on the 5-minute grid, each cell a reading or NaN
GapColumns == UNION {[1..n -> {NaN, RefReading}] : n \in 1..MaxGapCol}

InitGaps ==
    /\ pc = "gaps"
    /\ IdleCGM
    /\ IdleAlign
    /\ IdleMeals
    /\ IdleUnits
    /\ IdleAux
    /\ gap_col \in GapColumns
    /\ gap_index = DateRange(0, GridMinutes * (Len(gap_col) - 1), GridMinutes)
    /\ gaps_df = <<>>
    /\ largest_gaps = <<>>

\* the rankings of the inventory that analyse_glucose_gaps can report as
\* largest_gaps: the MaxLargest longest records, longest first; records of
\* equal length come in either order
LargestGaps(gaps) ==
    LET n == IF Len(gaps) < MaxLargest THEN Len(gaps) ELSE MaxLargest
        picks == { p \in [1..n -> 1..Len(gaps)] :
                     /\ \A i, j \in 1..n : i # j => p[i] # p[j]
                     /\ \A i \in 1..(n - 1) :
                           gaps[p[i]].length_minutes >= gaps[p[i + 1]].length_minutes
                     /\ \A g \in 1..Len(gaps) :
                           (\A i \in 1..n : p[i] # g)
                             => gaps[g].length_minutes <= gaps[p[n]].length_minutes }
    IN  { [i \in 1..n |-> gaps[p[i]]] : p \in picks }

\* analyse_glucose_gaps(aligned_df)
AnalyseGlucoseGaps ==
    /\ pc = "gaps"
    /\ pc' = "gaps_done"
    /\ gaps_df' = GapInventory(gap_col, gap_index, GridMinutes)
    /\ largest_gaps' \in LargestGaps(gaps_df')
    /\ UNCHANGED <<cgm_vars, align_vars, meal_vars, aux_vars, unit_vars, gap_col, gap_index>>

NextGaps == AnalyseGlucoseGaps

SpecGaps == InitGaps /\ [][NextGaps]_vars

----------------------------------------------------------------------------
(* Meal-quality classifier *)

\* maximum missing percentage of a usable window
DefaultMaxMissingPct == 20

\* maximum gap, in minutes, inside a usable window
DefaultMaxGapMinutes == 25

\* missing percentage up to which a window is Usable
DefaultUsableMissingPct == 10

\* gap, in minutes, up to which a window is Usable
DefaultUsableGapMinutes == 15

\* least carbohydrate entry, in grams, that is a meal
DefaultMinCarbs == 20

\* post-meal analysis window, in minutes
DefaultWindowMinutes == 240

\* the MealAnalysisConfig bundles tried: the default thresholds, over the
\* default post-meal window, over two shorter ones and over an empty one
Configs ==
    { [window_minutes |-> w,
       max_missing_pct |-> DefaultMaxMissingPct,
       max_gap_minutes |-> DefaultMaxGapMinutes,
       usable_missing_pct |-> DefaultUsableMissingPct,
       usable_gap_minutes |-> DefaultUsableGapMinutes,
       min_carbs |-> DefaultMinCarbs] : w \in {0, 30, 150, DefaultWindowMinutes} }

\* minutes of the gap record that lie inside the window [from, to)
Overlap(gap, from, to) ==
    LET lo == IF gap.start_time > from THEN gap.start_time ELSE from
        hi == IF gap.end_time < to THEN gap.end_time ELSE to
    IN  IF hi > lo THEN hi - lo ELSE 0

\* the grid instants of the table inside the window [from, to)
WindowPoints(index, from, to) == {i \in 1..Len(index) : from <= index[i] /\ index[i] < to}

\* the measurements of the whole table, whatever the window
WindowStatsWholeTable(index, gaps, step, from, to) ==
    [expected |-> Len(index),
     missing |-> SeqSum([g \in 1..Len(gaps) |-> gaps[g].length_minutes]) \div step,
     gap_count |-> Len(gaps),
     gap_duration_mins |-> IF Len(gaps) = 0 THEN 0
                           ELSE Max({gaps[g].length_minutes : g \in 1..Len(gaps)})]

\* the measurements of one meal window, from the gap inventory restricted to it
WindowStats(index, gaps, step, from, to) ==
    LET inside == [g \in 1..Len(gaps) |-> Overlap(gaps[g], from, to)]
    IN  [expected |-> Cardinality(WindowPoints(index, from, to)),
         missing |-> SeqSum(inside) \div step,
         gap_count |-> Cardinality({g \in 1..Len(gaps) : inside[g] > 0}),
         gap_duration_mins |-> IF Len(gaps) = 0 THEN 0 ELSE Max({inside[g] : g \in 1..Len(gaps)} \cup {0})]

\* missing percentage >= pct
PctAtLeast(stats, pct) == stats.expected > 0 /\ 100 * stats.missing >= pct * stats.expected

\* missing percentage > pct, the percentage being 0 for a window without points
PctAbove(stats, pct) == stats.expected > 0 /\ 100 * stats.missing > pct * stats.expected

\* the ordered rules with a gap of exactly the maximum already Unusable
ClassifyGapInclusive(stats, cfg) ==
    IF PctAbove(stats, cfg.max_missing_pct) \/ stats.gap_duration_mins >= cfg.max_gap_minutes
    THEN "Unusable"
    ELSE IF stats.missing = 0 /\ stats.gap_count = 0
    THEN "Clean"
    ELSE IF ~PctAbove(stats, cfg.usable_missing_pct)
            /\ stats.gap_duration_mins <= cfg.usable_gap_minutes
    THEN "Usable"
    ELSE "Borderline"

\* the ordered rules of the classifier, first match wins
Classify(stats, cfg) ==
    IF PctAbove(stats, cfg.max_missing_pct) \/ stats.gap_duration_mins > cfg.max_gap_minutes
    THEN "Unusable"
    ELSE IF stats.missing = 0 /\ stats.gap_count = 0
    THEN "Clean"
    ELSE IF ~PctAbove(stats, cfg.usable_missing_pct)
            /\ stats.gap_duration_mins <= cfg.usable_gap_minutes
    THEN "Usable"
    ELSE "Borderline"

\* the missing percentage as the quotient 100 * missing / expected, whatever
\* the number of expected points
MissingPctUnguarded(stats) == [num |-> 100 * stats.missing, den |-> stats.expected]

\* the missing percentage of a window, as a fraction: 0 for a window without
\* expected points
MissingPct(stats) ==
    IF stats.expected = 0 THEN [num |-> 0, den |-> 1]
    ELSE [num |-> 100 * stats.missing, den |-> stats.expected]

\* the annotation of the meal at position i of the table
MealRecord(table, gaps, cfg, i) ==
    LET stats == WindowStats(table.index, gaps, GridMinutes,
                             table.index[i], table.index[i] + cfg.window_minutes)
        tier == Classify(stats, cfg)
    IN  [meal_time |-> table.index[i],
         meal_quality |-> tier,
         expected |-> stats.expected,
         missing |-> stats.missing,
         missing_pct |-> MissingPct(stats),
         gap_count |-> stats.gap_count,
         gap_duration_mins |-> stats.gap_duration_mins,
         skip_meal |-> (tier = "Unusable")]

\* the positions whose carbohydrates are strictly above the minimum meal size
MealPositionsAbove(table, cfg) == {i \in 1..Len(table.index) : table.carbs[i] > cfg.min_carbs}

\* the positions of the table that hold a meal event
MealPositions(table, cfg) == {i \in 1..Len(table.index) : table.carbs[i] >= cfg.min_carbs}

\* analyse_meal_data: one annotation per meal event, in time order
AnalyseMeals(table, gaps, cfg) ==
    LET meals == MealPositions(table, cfg)
    IN  [k \in 1..Cardinality(meals) |->
            MealRecord(table, gaps, cfg,
                       CHOOSE i \in meals : Cardinality({j \in meals : j < i}) = k - 1)]

\* the quality tiers
Tiers == {"Clean", "Usable", "Borderline", "Unusable"}

\* product of f over the finite set S
RECURSIVE ProdOver(_, _)
ProdOver(f, S) ==
    IF S = {} THEN 1
    ELSE LET x == CHOOSE y \in S : TRUE
         IN  f[x] * ProdOver(f, S \ {x})

\* the mean of the fractions num[k] / den[k], as one fraction; 0 / 1 for none;
\* a fraction with denominator 0 counts as 0
MeanOfFractions(num, den) ==
    LET K == DOMAIN num
        d == [k \in K |-> IF den[k] = 0 THEN 1 ELSE den[k]]
        n == [k \in K |-> IF den[k] = 0 THEN 0 ELSE num[k] * ProdOver(d, K \ {k})]
    IN  IF K = {} THEN [num |-> 0, den |-> 1]
        ELSE [num |-> SumOver(n, K), den |-> Cardinality(K) * ProdOver(d, K)]

\* get_meal_statistics: the aggregates over all meals of the annotation layer
GetMealStatistics(an) ==
    LET K == 1..Len(an)
        count == [t \in Tiers |-> Cardinality({k \in K : an[k].meal_quality = t})]
    IN  [total_meals |-> Len(an),
         quality_counts |-> count,
         quality_percentages |-> [t \in Tiers |-> [num |-> 100 * count[t], den |-> Len(an)]],
         avg_missing_pct |-> MeanOfFractions([k \in K |-> 100 * an[k].missing],
                                             [k \in K |-> an[k].expected]),
         avg_gap_duration |-> MeanOfFractions([k \in K |-> an[k].gap_duration_mins],
                                              [k \in K |-> 1]),
         usable_meals_pct |-> [num |-> 100 * (Len(an) - count["Unusable"]), den |-> Len(an)]]

\* the aligned table with every short gap of glucose filled in place
TableInterpolated(table, an) ==
    [table EXCEPT !.glucose = Interpolate(table.glucose, DefaultMaxGapMinutes \div GridMinutes)]

\* the aligned table with the carbohydrates of the classified meals cleared
TableMealsConsumed(table, an) ==
    [table EXCEPT !.carbs = [i \in 1..Len(table.carbs) |->
        IF \E k \in 1..Len(an) : an[k].meal_time = table.index[i]
        THEN 0 ELSE table.carbs[i]]]

\* the aligned table after analyse_meal_data: the annotations are a separate
\* layer and the table passed in is left as it was
TableAfter(table, an) == table

\* instants of a meal table: the longest window and one instant after it
MealTableLen == DefaultWindowMinutes \div GridMinutes + 1

\* grid position of the second carbohydrate entry of a meal table
SecondMealAt == 4

\* aligned tables with a 25 g meal and its bolus at the first instant and a
\* second carbohydrate entry, of 20 g or just below, later on; glucose may be
\* missing at any of the first MaxPat instants
MealTables(max_pat) ==
    { [index |-> DateRange(0, GridMinutes * (MealTableLen - 1), GridMinutes),
       glucose |-> [i \in 1..MealTableLen |-> IF i \in M THEN NaN ELSE RefReading],
       carbs |-> [i \in 1..MealTableLen |->
                    IF i = 1 THEN 25 ELSE IF i = SecondMealAt THEN c ELSE 0],
       bolus |-> [i \in 1..MealTableLen |-> IF i = 1 THEN Units(0) ELSE 0]]
      : M \in SUBSET (1..max_pat), c \in {DefaultMinCarbs - 1, DefaultMinCarbs} }

InitMeals ==
    /\ pc = "meals"
    /\ IdleCGM
    /\ IdleAlign
    /\ IdleGaps
    /\ IdleUnits
    /\ IdleAux
    /\ meal_table \in MealTables(MaxPat)
    /\ meal_gaps = GapInventory(meal_table.glucose, meal_table.index, GridMinutes)
    /\ config \in Configs
    /\ analysed = <<>>
    /\ meal_stats = [total_meals |-> 0]
    /\ last_run = <<>>

\* analyse_meal_data(aligned_df) followed by get_meal_statistics(analysed_df);
\* the call can be repeated once on the table as the first call left it
AnalyseMealData ==
    /\ pc \in {"meals", "meals_done"}
    /\ pc' = IF pc = "meals" THEN "meals_done" ELSE "meals_redone"
    /\ meal_gaps' = GapInventory(meal_table.glucose, meal_table.index, GridMinutes)
    /\ analysed' = AnalyseMeals(meal_table, meal_gaps', config)
    /\ meal_stats' = GetMealStatistics(analysed')
    /\ meal_table' = TableAfter(meal_table, analysed')
    /\ last_run' = <<analysed, meal_stats>>
    /\ UNCHANGED <<cgm_vars, align_vars, gap_vars, unit_vars, aux_vars, config>>

NextMeals == AnalyseMealData

SpecMeals == InitMeals /\ [][NextMeals]_vars

----------------------------------------------------------------------------
(* Unit conversion in CGMProcessor.process_type *)

\* the factor 0.0555 of the mmol/L columns, in units of 1/10^4
MmolFactor == 555

\* the factor 18.0182 of the conversion to mg/dL, in units of 1/10^4
MgdlFactor == 180182

\* the base of the limbs of the exact decimal arithmetic
Limb == 10000

\* combined_df[mmol_col] = combined_df[col] * 0.0555, for a whole mg/dL value;
\* the product in units of 1/10^4 mmol/L
ToMmol(mgdl) == mgdl * MmolFactor

\* df["value"] = df["value"] * 18.0182, for a value in units of 1/10^4 mmol/L;
\* the exact product, as whole mg/dL and a fraction in units of 1/10^8
ToMgdl(mmol) ==
    LET high == (mmol \div Limb) * MgdlFactor
        low == (mmol % Limb) * MgdlFactor
        upper == high + (low \div Limb)
    IN  [whole |-> upper \div Limb,
         e8 |-> (upper % Limb) * Limb + (low % Limb)]

InitUnits ==
    /\ pc = "units"
    /\ IdleCGM
    /\ IdleAlign
    /\ IdleGaps
    /\ IdleMeals
    /\ IdleAux
    /\ glucose_in \in 1..MaxGlucose
    /\ as_mmol = 0
    /\ back_mgdl = [whole |-> 0, e8 |-> 0]

\* unit generation: the mmol/L version of a mg/dL column
GenerateMmol ==
    /\ pc = "units"
    /\ pc' = "units_mmol"
    /\ as_mmol' = ToMmol(glucose_in)
    /\ UNCHANGED <<cgm_vars, align_vars, gap_vars, meal_vars, aux_vars, glucose_in, back_mgdl>>

\* unit conversion: a column given in mmol/L is standardised to mg/dL
ConvertToMgdl ==
    /\ pc = "units_mmol"
    /\ pc' = "units_back"
    /\ back_mgdl' = ToMgdl(as_mmol)
    /\ UNCHANGED <<cgm_vars, align_vars, gap_vars, meal_vars, aux_vars, glucose_in, as_mmol>>

NextUnits == GenerateMmol \/ ConvertToMgdl

SpecUnits == InitUnits /\ [][NextUnits]_vars

----------------------------------------------------------------------------
(* InsulinProcessor.process_type *)

\* the largest number of rows of a raw insulin table
MaxDoses == 2

\* the default bolus_limit, 8.0 units, in tenths of a unit
DefaultBolusLimit == 80

\* the default max_limit, 15.0 units, in tenths of a unit
DefaultMaxLimit == 150

\* the limits of the example call: bolus_limit = 10.0, max_limit = 20.0
CustomBolusLimit == 100

CustomMaxLimit == 200

InsulinLimits ==
    {[bolus |-> DefaultBolusLimit, max |-> DefaultMaxLimit],
     [bolus |-> CustomBolusLimit, max |-> CustomMaxLimit]}

\* doses at, just above and just below each limit, and a dose of zero
Doses ==
    {0} \cup UNION {{l.bolus, l.bolus + 1, l.max, l.max + 1} : l \in InsulinLimits}

\* what the insulin entry of the meta JSON holds; "" when there is none
MetaLabels == {"", "novorapid", "levemir"}

\* _extract_meta_info: (is_bolus, is_basal, insulin_type)
ExtractMetaInfo(meta) ==
    CASE meta = "novorapid" -> [is_bolus |-> TRUE, is_basal |-> FALSE, type |-> "novorapid"]
      [] meta = "levemir" -> [is_bolus |-> FALSE, is_basal |-> TRUE, type |-> "levemir"]
      [] OTHER -> [is_bolus |-> FALSE, is_basal |-> FALSE, type |-> ""]

\* a dose-based classification that puts a dose equal to a limit one class up
ClassifyDoseStrict(value, bolus, max) ==
    [is_bolus |-> value < bolus,
     is_basal |-> value >= bolus /\ value < max]

\* result_df["is_bolus"] = df["value"] <= bolus_limit
\* result_df["is_basal"] = (df["value"] > bolus_limit) & (df["value"] <= max_limit)
ClassifyDose(value, bolus, max) ==
    [is_bolus |-> value <= bolus,
     is_basal |-> value > bolus /\ value <= max]

\* one row of result_df: the dose-based classification, then the metadata update
InsulinRow(row, bolus, max) ==
    LET byDose == ClassifyDose(row.value, bolus, max)
        m == ExtractMetaInfo(row.meta)
    IN  IF m.type # ""
        THEN [t |-> row.t, dose |-> row.value, is_bolus |-> m.is_bolus,
              is_basal |-> m.is_basal, type |-> m.type]
        ELSE [t |-> row.t, dose |-> row.value, is_bolus |-> byDose.is_bolus,
              is_basal |-> byDose.is_basal, type |-> ""]

\* df = df[df["value"] > 0.0]
PositiveDoses(rows) == SelectSeq(rows, LAMBDA r : r.value > 0)

\* "Dropped N doses exceeding max_limit": a dose above max_limit is invalid
DropInvalidDoses(rows, max) == SelectSeq(rows, LAMBDA r : r.value <= max)

\* the raw table whose i-th row holds the dose and the label entry[i]
InsulinRaw(entry) ==
    [i \in DOMAIN entry |-> [t |-> i, value |-> entry[i][1], meta |-> entry[i][2]]]

InitInsulin ==
    /\ pc = "insulin"
    /\ IdleCGM
    /\ IdleAlign
    /\ IdleGaps
    /\ IdleMeals
    /\ IdleUnits
    /\ IdleCarbs
    /\ IdlePipeline
    /\ IdleRegistry
    /\ \E n \in 1..MaxDoses :
           \E entry \in [1..n -> Doses \X MetaLabels] : insulin_raw = InsulinRaw(entry)
    /\ \E l \in InsulinLimits : bolus_limit = l.bolus /\ max_limit = l.max
    /\ insulin_result = <<>>

ProcessInsulin ==
    /\ pc = "insulin"
    /\ LET kept == DropInvalidDoses(PositiveDoses(insulin_raw), max_limit)
       IN  insulin_result' =
               [i \in 1..Len(kept) |-> InsulinRow(kept[i], bolus_limit, max_limit)]
    /\ pc' = "insulin_done"
    /\ UNCHANGED <<cgm_vars, align_vars, gap_vars, meal_vars, unit_vars, carb_vars,
                   pipeline_vars, registry_vars, insulin_raw, bolus_limit, max_limit>>

NextInsulin == ProcessInsulin

SpecInsulin == InitInsulin /\ [][NextInsulin]_vars

----------------------------------------------------------------------------
(* CarbsProcessor.process_type *)

\* the largest number of rows of a raw carbohydrate table
MaxCarbRows == 3

\* the instants of the raw carbohydrate rows
CarbTimes == {1, 2}

\* primary entries: below the minimum of 1 g, and two valid amounts
PrimaryGrams == {0, 20, 30}

\* entries of the second column: none, or a valid amount
SecondGrams == {NaN, 5}

\* mask = combined_df[col] >= 1.0; combined_df.loc[~mask, col] = None
MaskValue(v) == IF v >= 1 THEN v ELSE NaN

MaskRows(rows) ==
    [i \in 1..Len(rows) |->
        [t |-> rows[i].t, primary |-> MaskValue(rows[i].primary),
         second |-> MaskValue(rows[i].second)]]

\* combined_df.dropna(how="all")
DropEmptyRows(rows) == SelectSeq(rows, LAMBDA r : r.primary # NaN \/ r.second # NaN)

\* a cleanup that keeps the last row of each timestamp
DropDuplicatesKeepLast(rows) ==
    LET last(i) == \A j \in (i + 1)..Len(rows) : rows[j].t # rows[i].t
        keep == {i \in 1..Len(rows) : last(i)}
        RECURSIVE Build(_)
        Build(i) == IF i > Len(rows) THEN <<>>
                    ELSE IF i \in keep THEN <<rows[i]>> \o Build(i + 1)
                         ELSE Build(i + 1)
    IN  Build(1)

\* combined_df[~combined_df.index.duplicated()]: duplicated() marks every
\* row whose timestamp already occurred earlier in the table
DropDuplicates(rows) ==
    LET duplicated(i) == \E j \in 1..(i - 1) : rows[j].t = rows[i].t
        keep == {i \in 1..Len(rows) : ~duplicated(i)}
        RECURSIVE Build(_)
        Build(i) == IF i > Len(rows) THEN <<>>
                    ELSE IF i \in keep THEN <<rows[i]>> \o Build(i + 1)
                         ELSE Build(i + 1)
    IN  Build(1)

CarbsRaws(max_rows) ==
    UNION {[1..n -> [t : CarbTimes, primary : PrimaryGrams, second : SecondGrams]] :
               n \in 1..max_rows}

InitCarbs ==
    /\ pc = "carbs"
    /\ IdleCGM
    /\ IdleAlign
    /\ IdleGaps
    /\ IdleMeals
    /\ IdleUnits
    /\ IdleInsulin
    /\ IdlePipeline
    /\ IdleRegistry
    /\ carbs_raw \in CarbsRaws(MaxCarbRows)
    /\ carbs_result = <<>>

ProcessCarbs ==
    /\ pc = "carbs"
    /\ carbs_result' = DropDuplicates(DropEmptyRows(MaskRows(carbs_raw)))
    /\ pc' = "carbs_done"
    /\ UNCHANGED <<cgm_vars, align_vars, gap_vars, meal_vars, unit_vars, insulin_vars,
                   pipeline_vars, registry_vars, carbs_raw>>

NextCarbs == ProcessCarbs

SpecCarbs == InitCarbs /\ [][NextCarbs]_vars

----------------------------------------------------------------------------
(* A pipeline run: CGMProcessor, Aligner, analyse_glucose_gaps, analyse_meal_data *)

\* the cleaned carbohydrate tables of a pipeline run: none, or one 20 g entry
PipelineCarbs == {<<>>, <<CarbRow(2 * GridMinutes)>>}

\* the default MealAnalysisConfig
DefaultConfig == CHOOSE c \in Configs : c.window_minutes = DefaultWindowMinutes

InitPipeline ==
    /\ pc = "pipeline"
    /\ IdleGaps
    /\ IdleMeals
    /\ IdleUnits
    /\ IdleInsulin
    /\ IdleCarbs
    /\ IdleRegistry
    /\ raw_cgm \in CgmInputs(MaxLen)
    /\ interpolation_limit \in 1..MaxLimit
    /\ reindexed = <<>>
    /\ filled = <<>>
    /\ cgm_primary = <<>>
    /\ cgm_start = 0
    /\ interpolated = <<>>
    /\ reference = <<>>
    /\ ref_is_datetime = TRUE
    /\ freq = GridMinutes
    /\ carbs_df \in PipelineCarbs
    /\ insulin_df = <<>>
    /\ notes_df = <<>>
    /\ cleaned = [carbs |-> carbs_df, insulin |-> insulin_df, notes |-> notes_df]
    /\ validation = "none"
    /\ align_result = "none"
    /\ aligned = NoTable
    /\ stages = <<>>

\* CGMProcessor.process_type: the cleaner, with the gap handling (the
\* interpolation) as its fourth step
CleanerStage ==
    /\ pc = "pipeline" /\ Len(raw_cgm) > 0
    /\ LET rows == RoundIndex(raw_cgm)
           times == {rows[i].t : i \in 1..Len(rows)}
           full_index == DateRange(Min(times), Max(times), GridMinutes)
       IN  /\ reindexed' = Reindex(rows, full_index)
           /\ cgm_start' = Min(times)
    /\ filled' = GapHandling(reindexed', interpolation_limit)
    /\ cgm_primary' = Clip(filled')
    /\ interpolated' = InterpolatedFlags(reindexed', filled')
    /\ stages' = stages \o <<"cleaner", "interpolation">>
    /\ pc' = "pipeline_cleaned"
    /\ UNCHANGED <<raw_cgm, interpolation_limit, align_vars, gap_vars, meal_vars, unit_vars,
                   insulin_vars, carb_vars, registry_vars>>

\* Aligner.align with the processed CGM table as the reference
AlignerStage ==
    /\ pc = "pipeline_cleaned"
    /\ reference' = [i \in 1..Len(cgm_primary) |->
                        [t |-> cgm_start + GridMinutes * (i - 1), v |-> cgm_primary[i]]]
    /\ validation' = ValidateTimeline(reference', ref_is_datetime, freq)
    /\ stages' = stages \o <<"aligner">>
    /\ IF validation' # "ok"
       THEN /\ align_result' = validation'
            /\ aligned' = NoTable
            /\ pc' = "pipeline_failed"
            /\ UNCHANGED <<carbs_df>>
       ELSE /\ carbs_df' = RoundRows(carbs_df, freq)
            /\ align_result' = "ok"
            /\ aligned' =
                  LET timeline == Timeline(reference', freq)
                  IN  [index |-> timeline,
                       cgm |-> ReindexReference(reference', timeline),
                       carbs |-> IF carbs_df' = <<>> THEN <<>>
                                 ELSE AlignCarbs(carbs_df', timeline, freq),
                       basal |-> <<>>, bolus |-> <<>>, notes |-> <<>>]
            /\ pc' = "pipeline_aligned"
    /\ UNCHANGED <<cgm_vars, gap_vars, meal_vars, unit_vars, insulin_vars, carb_vars,
                   registry_vars, ref_is_datetime, freq, insulin_df, notes_df, cleaned>>

\* analyse_glucose_gaps(aligned_df)
GapDetectorStage ==
    /\ pc = "pipeline_aligned"
    /\ gap_col' = aligned.cgm
    /\ gap_index' = aligned.index
    /\ gaps_df' = GapInventory(gap_col', gap_index', GridMinutes)
    /\ largest_gaps' \in LargestGaps(gaps_df')
    /\ stages' = stages \o <<"gap detector">>
    /\ pc' = "pipeline_gaps"
    /\ UNCHANGED <<cgm_vars, align_vars, meal_vars, unit_vars, insulin_vars, carb_vars,
                   registry_vars>>

\* analyse_meal_data(combined_df)
ClassifierStage ==
    /\ pc = "pipeline_gaps"
    /\ config' = DefaultConfig
    /\ meal_gaps' = GapInventory(aligned.cgm, aligned.index, GridMinutes)
    /\ meal_table' =
          [index |-> aligned.index,
           glucose |-> aligned.cgm,
           carbs |-> IF aligned.carbs = <<>> THEN [i \in 1..Len(aligned.index) |-> 0]
                     ELSE aligned.carbs,
           bolus |-> [i \in 1..Len(aligned.index) |-> 0]]
    /\ analysed' = AnalyseMeals(meal_table', meal_gaps', config')
    /\ meal_stats' = GetMealStatistics(analysed')
    /\ last_run' = <<analysed, meal_stats>>
    /\ stages' = stages \o <<"classifier">>
    /\ pc' = "pipeline_done"
    /\ UNCHANGED <<cgm_vars, align_vars, gap_vars, unit_vars, insulin_vars, carb_vars,
                   registry_vars>>

NextPipeline == CleanerStage \/ AlignerStage \/ GapDetectorStage \/ ClassifierStage

SpecPipeline == InitPipeline /\ [][NextPipeline]_vars

----------------------------------------------------------------------------
(* DataProcessor: the registry of type processors *)

\* the DataProcessor instances, one per pipeline run
Instances == {1, 2}

DataTypes == {"cgm", "insulin"}

\* the shipped processor class of a data type
ShippedProcessor(data_type) ==
    IF data_type = "cgm" THEN "CGMProcessor" ELSE "InsulinProcessor"

\* processor classes: the shipped ones and one a caller registers
ProcessorClasses == {ShippedProcessor(d) : d \in DataTypes} \cup {"CustomProcessor"}

\* self._type_processors.get(data_type) of an instance: the attribute is
\* looked up on the class, every instance reads the one dict
Lookup(instance, data_type) == type_processors[data_type]

\* _type_processors: Dict[DataType, Type[BaseTypeProcessor]] = {}
InitRegistry ==
    /\ pc = "registry"
    /\ IdleCGM
    /\ IdleAlign
    /\ IdleGaps
    /\ IdleMeals
    /\ IdleUnits
    /\ IdleInsulin
    /\ IdleCarbs
    /\ IdlePipeline
    /\ type_processors = [d \in DataTypes |-> "None"]
    /\ resolved = [i \in Instances |-> [d \in DataTypes |-> "unresolved"]]

\* @DataProcessor.register_processor(data_type) applied to processor_cls, in
\* the course of the run that owns the instance
RegisterProcessor(instance, data_type, processor_cls) ==
    /\ pc = "registry"
    /\ type_processors' = [type_processors EXCEPT ![data_type] = processor_cls]
    /\ UNCHANGED <<pc, cgm_vars, align_vars, gap_vars, meal_vars, unit_vars, insulin_vars,
                   carb_vars, pipeline_vars, resolved>>

\* instance.get_processor_for_type(data_type)
GetProcessorForType(instance, data_type) ==
    /\ pc = "registry"
    /\ resolved' = [resolved EXCEPT ![instance][data_type] =
                       IF Lookup(instance, data_type) = "None" THEN "ProcessingError"
                       ELSE Lookup(instance, data_type)]
    /\ UNCHANGED <<pc, cgm_vars, align_vars, gap_vars, meal_vars, unit_vars, insulin_vars,
                   carb_vars, pipeline_vars, type_processors>>

NextRegistry ==
    \/ \E i \in Instances, d \in DataTypes, c \in ProcessorClasses : RegisterProcessor(i, d, c)
    \/ \E i \in Instances, d \in DataTypes : GetProcessorForType(i, d)

SpecRegistry == InitRegistry /\ [][NextRegistry]_vars

----------------------------------------------------------------------------
(* Properties of the gap-handling block *)

\* the maximal runs of missing values of a column, as <<first, last>> positions
NullRuns(col) ==
    { <<s, e>> \in (1..Len(col)) \X (1..Len(col)) :
        /\ s <= e
        /\ \A i \in s..e : col[i] = NaN
        /\ (s = 1 \/ col[s - 1] # NaN)
        /\ (e = Len(col) \/ col[e + 1] # NaN) }

RunLength(run) == run[2] - run[1] + 1

\* C1: after the interpolation pass with limit L, every maximal run of missing
\* values that was longer than L is still entirely missing.
C1_LongGapsStayNull ==
    pc = "cgm_done" =>
        \A run \in NullRuns(reindexed) :
            RunLength(run) > interpolation_limit =>
                \A i \in run[1]..run[2] : filled[i] = NaN

\* C5: every maximal run of missing values of length at most the limit with a
\* known value on both sides is filled completely, each filled value on the
\* straight line between the two neighbouring known values.
C5_ShortGapsFilledLinearly ==
    pc = "cgm_done" =>
        \A run \in NullRuns(reindexed) :
            (RunLength(run) <= interpolation_limit /\ run[1] > 1 /\ run[2] < Len(reindexed)) =>
                \A i \in run[1]..run[2] :
                    /\ filled[i] # NaN
                    /\ (filled[i] - reindexed[run[1] - 1]) * (RunLength(run) + 1)
                         = (reindexed[run[2] + 1] - reindexed[run[1] - 1]) * (i - run[1] + 1)

\* a 2-point gap between two different readings, processed under a 4-step limit
C5_Witness ==
    /\ pc = "cgm_done"
    /\ interpolation_limit = 4
    /\ \E run \in NullRuns(reindexed) :
        /\ RunLength(run) = 2
        /\ run[1] > 1
        /\ run[2] < Len(reindexed)
        /\ reindexed[run[1] - 1] # reindexed[run[2] + 1]
        /\ filled[run[1]] # NaN
        /\ filled[run[2]] # NaN

----------------------------------------------------------------------------
(* Properties of Aligner.align *)

\* C2: for every input that passes validation the aligned index runs from the
\* minimum to the maximum reference timestamp in steps of exactly one
\* frequency, strictly increasing, with one row per instant.
C2_GridComplete ==
    align_result = "ok" =>
        /\ Len(aligned.index) >= 1
        /\ aligned.index[1] = Min(Times(reference))
        /\ aligned.index[Len(aligned.index)] = Max(Times(reference))
        /\ \A i \in 1..(Len(aligned.index) - 1) : aligned.index[i + 1] = aligned.index[i] + freq
        /\ Len(aligned.cgm) = Len(aligned.index)

\* every timestamp of the cleaned treatment tables lies within the reference range
SourcesInRange ==
    \A t \in Times(cleaned.carbs) \cup Times(cleaned.insulin) :
        Min(Times(reference)) <= t /\ t <= Max(Times(reference))

\* C3: when all source timestamps fall within the reference range, the aligned
\* carbohydrate column sums to the cleaned carbohydrate values and the aligned
\* basal and bolus columns together sum to the cleaned insulin doses.
C3_Conservation ==
    (align_result = "ok" /\ SourcesInRange) =>
        /\ SeqSum(aligned.carbs) = SeqSum([i \in 1..Len(cleaned.carbs) |-> cleaned.carbs[i].v])
        /\ SeqSum(aligned.basal) + SeqSum(aligned.bolus)
             = SeqSum([i \in 1..Len(cleaned.insulin) |-> cleaned.insulin[i].dose])

\* the reference breaks one of the four preconditions of alignment
InvalidReference ==
    \/ Len(reference) = 0
    \/ ~ref_is_datetime
    \/ \E i \in 1..(Len(reference) - 1) : reference[i].t > reference[i + 1].t
    \/ Len(reference) >= 2 /\ Min(Modes(TimeDiffs(reference))) # freq

\* C6: an empty reference, a reference without a datetime index, a reference
\* whose index decreases somewhere, or one whose modal spacing differs from the
\* frequency makes align raise AlignmentError and return no table.
C6_InvalidReferenceRaises ==
    (pc = "align_done" /\ InvalidReference) =>
        /\ align_result = "AlignmentError"
        /\ aligned = NoTable

\* a sorted datetime reference with the wrong spacing, handed in together with a
\* carbohydrate table, was refused
C6_Witness ==
    /\ pc = "align_done"
    /\ Len(reference) >= 2
    /\ ref_is_datetime
    /\ IsMonotonicIncreasing(reference)
    /\ Min(Modes(TimeDiffs(reference))) # freq
    /\ carbs_df # <<>>
    /\ align_result = "AlignmentError"

\* C7: a reference index containing a repeated timestamp is rejected by
\* timeline validation with AlignmentError, even when its modal spacing equals
\* the frequency.
C7_RepeatedTimestampRejected ==
    (pc = "align_done" /\ HasDuplicateIndex(reference)) => validation = "AlignmentError"

----------------------------------------------------------------------------
(* Properties of the gap detector *)

\* the record's time span holds instant t
Covers(gap, t) == gap.start_time <= t /\ t < gap.end_time

\* C4: the time spans of the gap records hold exactly the instants whose
\* reference value is missing, no two records overlap, and two consecutive
\* missing instants always lie in the same record.
C4_GapInventoryComplete ==
    pc = "gaps_done" =>
        /\ \A i \in 1..Len(gap_col) :
              (gap_col[i] = NaN) <=> (\E g \in 1..Len(gaps_df) : Covers(gaps_df[g], gap_index[i]))
        /\ \A g, h \in 1..Len(gaps_df) :
              g # h => \A i \in 1..Len(gap_col) :
                          ~(Covers(gaps_df[g], gap_index[i]) /\ Covers(gaps_df[h], gap_index[i]))
        /\ \A i \in 1..(Len(gap_col) - 1) :
              (gap_col[i] = NaN /\ gap_col[i + 1] = NaN) =>
                  \E g \in 1..Len(gaps_df) :
                      Covers(gaps_df[g], gap_index[i]) /\ Covers(gaps_df[g], gap_index[i + 1])

\* a column with two separate runs of missing values, one of them longer than
\* one instant, was analysed
C4_Witness ==
    /\ pc = "gaps_done"
    /\ Len(gaps_df) = 2
    /\ \E i \in 1..(Len(gap_col) - 1) : gap_col[i] = NaN /\ gap_col[i + 1] = NaN

----------------------------------------------------------------------------
(* Properties of the meal-quality classifier *)

\* positions of the glucose column inside the window of the meal at time T
MealWindow(T) == WindowPoints(meal_table.index, T, T + config.window_minutes)

\* missing glucose instants inside the window, counted on the column itself
DirectMissing(T) == Cardinality({i \in MealWindow(T) : meal_table.glucose[i] = NaN})

\* the glucose column cut to the window
WindowColumn(T) ==
    LET window == MealWindow(T)
        first == Min(window)
    IN  [k \in 1..Cardinality(window) |-> meal_table.glucose[first + k - 1]]

\* minutes of the longest run of missing instants inside the window
DirectMaxGap(T) ==
    LET col == WindowColumn(T)
        nulls == {i \in 1..Len(col) : col[i] = NaN}
        runs == {run \in nulls \X nulls :
                    run[1] <= run[2] /\ \A i \in run[1]..run[2] : col[i] = NaN}
    IN  GridMinutes * Max({RunLength(run) : run \in runs} \cup {0})

\* the missing percentage of the window is strictly above pct
DirectPctAbove(T, pct) == 100 * DirectMissing(T) > pct * Cardinality(MealWindow(T))

\* the missing percentage of the window is exactly pct
DirectPctIs(T, pct) == 100 * DirectMissing(T) = pct * Cardinality(MealWindow(T))

\* C8: a meal is Unusable, and skipped, exactly when the missing percentage
\* of its window exceeds the maximum or the longest gap in the window exceeds
\* the maximum gap; exactly 20% with exactly 25 minutes is not Unusable, and
\* a gap of 45 minutes in the window is Unusable and recorded as such.
C8_UnusableExactlyAboveMaximum ==
    pc = "meals_done" =>
        \A k \in 1..Len(analysed) :
            LET r == analysed[k]
                T == r.meal_time
                over == \/ DirectPctAbove(T, config.max_missing_pct)
                        \/ DirectMaxGap(T) > config.max_gap_minutes
            IN  /\ (r.meal_quality = "Unusable") <=> over
                /\ r.skip_meal <=> over
                /\ (DirectPctIs(T, DefaultMaxMissingPct) /\ DirectMaxGap(T) = DefaultMaxGapMinutes)
                      => r.meal_quality # "Unusable"
                /\ DirectMaxGap(T) >= 45
                      => /\ r.meal_quality = "Unusable"
                         /\ r.skip_meal
                         /\ r.gap_duration_mins = DirectMaxGap(T)

\* a meal at exactly 20% missing with a longest gap of exactly 25 minutes
C8_Witness ==
    /\ pc = "meals_done"
    /\ \E k \in 1..Len(analysed) :
          /\ DirectPctIs(analysed[k].meal_time, DefaultMaxMissingPct)
          /\ DirectMaxGap(analysed[k].meal_time) = DefaultMaxGapMinutes
          /\ analysed[k].meal_quality = "Borderline"
          /\ ~analysed[k].skip_meal

\* C9: a meal whose window has no missing glucose point and no gap is Clean,
\* not skipped and 0% missing; a meal with a missing point in its window is
\* never Clean.
C9_CleanExactlyWithoutMissing ==
    pc = "meals_done" =>
        \A k \in 1..Len(analysed) :
            LET r == analysed[k]
                T == r.meal_time
            IN  /\ (DirectMissing(T) = 0 /\ DirectMaxGap(T) = 0)
                      => /\ r.meal_quality = "Clean"
                         /\ ~r.skip_meal
                         /\ r.missing = 0
                /\ DirectMissing(T) >= 1 => r.meal_quality # "Clean"

\* a Clean meal of a table that has missing glucose after the meal's window
C9_Witness ==
    /\ pc = "meals_done"
    /\ \E k \in 1..Len(analysed) :
          /\ analysed[k].meal_quality = "Clean"
          /\ DirectMissing(analysed[k].meal_time) = 0
    /\ \E i \in 1..Len(meal_table.glucose) : meal_table.glucose[i] = NaN

\* C10: a meal that is neither Unusable nor Clean is Usable exactly when the
\* missing percentage is at most the usable threshold and the longest gap in
\* the window is at most the usable gap; otherwise it is Borderline; it is not
\* skipped either way.
C10_UsableOrBorderline ==
    pc = "meals_done" =>
        \A k \in 1..Len(analysed) :
            LET r == analysed[k]
                T == r.meal_time
                within == /\ ~DirectPctAbove(T, config.usable_missing_pct)
                          /\ DirectMaxGap(T) <= config.usable_gap_minutes
            IN  r.meal_quality \notin {"Unusable", "Clean"}
                  => /\ r.meal_quality = IF within THEN "Usable" ELSE "Borderline"
                     /\ ~r.skip_meal

\* a Usable meal at exactly 10% missing with a longest gap of exactly 15 minutes
C10_Witness ==
    /\ pc = "meals_done"
    /\ \E k \in 1..Len(analysed) :
          /\ DirectPctIs(analysed[k].meal_time, DefaultUsableMissingPct)
          /\ DirectMaxGap(analysed[k].meal_time) = DefaultUsableGapMinutes
          /\ analysed[k].meal_quality = "Usable"

----------------------------------------------------------------------------
(* Further properties of CGMProcessor.process_type *)

\* position i lies in the run of missing values that opens the column
InLeadingRun(col, i) == \A j \in 1..i : col[j] = NaN

\* C13: the cells of a run of missing glucose values at the very start of the
\* series stay null, whatever the run's length and the interpolation limit.
C13_LeadingGapStaysNull ==
    pc = "cgm_done" =>
        \A i \in 1..Len(reindexed) :
            InLeadingRun(reindexed, i) => filled[i] = NaN /\ cgm_primary[i] = NaN

\* a leading run of two missing values, within the limit, before a reading
C13_Witness ==
    /\ pc = "cgm_done"
    /\ Len(reindexed) >= 3
    /\ InLeadingRun(reindexed, 2)
    /\ reindexed[3] # NaN
    /\ interpolation_limit >= 2

----------------------------------------------------------------------------
(* Further properties of the gap detector *)

\* C15: the list of the longest gaps is in descending order of duration, and
\* of two gaps of equal duration the one that starts earlier comes first.
C15_LargestGapsTiesEarliestFirst ==
    pc = "gaps_done" =>
        \A i, j \in 1..Len(largest_gaps) :
            i < j =>
                /\ largest_gaps[i].length_minutes >= largest_gaps[j].length_minutes
                /\ largest_gaps[i].length_minutes = largest_gaps[j].length_minutes
                      => largest_gaps[i].start_time < largest_gaps[j].start_time

\* positions of the column that a gap record spans
Spanned(gap) == {i \in 1..Len(gap_col) : Covers(gap, gap_index[i])}

\* C16: the end of a gap record is one grid step after its last missing
\* instant, and its length in minutes is end minus start, which is the number
\* of missing instants of the run times the grid step: a positive multiple of
\* the grid step.
C16_GapRecordArithmetic ==
    pc = "gaps_done" =>
        \A g \in 1..Len(gaps_df) :
            LET gap == gaps_df[g]
            IN  /\ gap.end_time > gap.start_time
                /\ \E i \in 1..Len(gap_col) :
                      /\ gap_col[i] = NaN
                      /\ gap.end_time = gap_index[i] + GridMinutes
                      /\ (i = Len(gap_col) \/ gap_col[i + 1] # NaN)
                /\ gap.length_minutes = gap.end_time - gap.start_time
                /\ gap.length_minutes = Cardinality(Spanned(gap)) * GridMinutes
                /\ \A i \in Spanned(gap) : gap_col[i] = NaN
                /\ gap.length_minutes > 0
                /\ gap.length_minutes % GridMinutes = 0

\* a record of a run of three missing instants that ends the column
C16_Witness ==
    /\ pc = "gaps_done"
    /\ \E g \in 1..Len(gaps_df) :
          /\ gaps_df[g].length_minutes = 3 * GridMinutes
          /\ gaps_df[g].end_time = gap_index[Len(gap_index)] + GridMinutes
    /\ Len(gaps_df) >= 2

----------------------------------------------------------------------------
(* Properties of the unit conversion *)

\* C17: a glucose value converted to mmol/L (x 0.0555) and back to mg/dL
\* (x 18.0182) is the original value to within one part in a million.
C17_UnitRoundTrip ==
    pc = "units_back" =>
        /\ back_mgdl.whole = glucose_in
        /\ back_mgdl.e8 <= 100 * glucose_in

----------------------------------------------------------------------------
(* Properties of the value validation *)

\* C18: after processing, every glucose value that is not null lies in
\* [39.64, 360.36]; a value below or above the range has become the nearest
\* bound, a value inside it is kept, and no value has become null.
C18_ValuesClampedToRange ==
    pc = "cgm_done" =>
        \A i \in 1..Len(filled) :
            /\ (cgm_primary[i] = NaN) <=> (filled[i] = NaN)
            /\ cgm_primary[i] # NaN =>
                  /\ ClipLower <= cgm_primary[i]
                  /\ cgm_primary[i] <= ClipUpper
                  /\ filled[i] < ClipLower => cgm_primary[i] = ClipLower
                  /\ filled[i] > ClipUpper => cgm_primary[i] = ClipUpper
                  /\ (ClipLower <= filled[i] /\ filled[i] <= ClipUpper)
                        => cgm_primary[i] = filled[i]

\* a column with a reading below the range, one above it and an interpolated
\* value inside it
C18_Witness ==
    /\ pc = "cgm_done"
    /\ \E i, j, k \in 1..Len(filled) :
          /\ filled[i] # NaN /\ filled[i] < ClipLower /\ cgm_primary[i] = ClipLower
          /\ filled[j] > ClipUpper /\ cgm_primary[j] = ClipUpper
          /\ interpolated[k] /\ cgm_primary[k] = filled[k]

----------------------------------------------------------------------------
(* Further properties of the aligner *)

\* some row of the cleaned table rounds onto the instant t
RoundsOnto(rows, t) == \E k \in 1..Len(rows) : Round(rows[k].t, freq) = t

\* the reference holds a reading at the instant t
HasReading(t) == \E k \in 1..Len(reference) : reference[k].t = t /\ reference[k].v # NaN

\* C19: in the aligned table, an instant onto which no carbohydrate entry
\* rounds has 0 carbohydrates, one onto which no insulin dose rounds has 0
\* basal and 0 bolus, none of these cells is ever null, and an instant without
\* a glucose reading has a null glucose value, never 0.
C19_ZeroTreatmentsNullGlucose ==
    (pc = "align_done" /\ align_result = "ok") =>
        \A i \in 1..Len(aligned.index) :
            LET t == aligned.index[i]
            IN  /\ cleaned.carbs # <<>> =>
                      /\ aligned.carbs[i] # NaN
                      /\ ~RoundsOnto(cleaned.carbs, t) => aligned.carbs[i] = 0
                /\ cleaned.insulin # <<>> =>
                      /\ aligned.basal[i] # NaN /\ aligned.bolus[i] # NaN
                      /\ ~RoundsOnto(cleaned.insulin, t)
                            => aligned.basal[i] = 0 /\ aligned.bolus[i] = 0
                /\ ~HasReading(t) => aligned.cgm[i] = NaN

\* an aligned table with a row of null glucose in the reference, an instant the
\* reference lacks, and carbohydrates and insulin at some instants only
C19_Witness ==
    /\ pc = "align_done"
    /\ align_result = "ok"
    /\ \E k \in 1..Len(reference) : reference[k].v = NaN
    /\ \E i \in 1..Len(aligned.index) :
          /\ aligned.cgm[i] = NaN
          /\ \A k \in 1..Len(reference) : reference[k].t # aligned.index[i]
    /\ cleaned.carbs # <<>> /\ cleaned.insulin # <<>>
    /\ \E i, j \in 1..Len(aligned.index) :
          /\ aligned.carbs[i] > 0 /\ aligned.carbs[j] = 0
          /\ aligned.bolus[i] = 0 /\ aligned.bolus[j] > 0

\* every timestamp of the table lies outside the reference time range
OutsideRange(rows) ==
    /\ rows # <<>>
    /\ \A k \in 1..Len(rows) :
          rows[k].t < Min(Times(reference)) \/ rows[k].t > Max(Times(reference))

\* every timestamp of the table rounds to an instant outside the reference
\* time range
RoundsOutsideRange(rows) ==
    /\ rows # <<>>
    /\ \A k \in 1..Len(rows) :
          \/ Round(rows[k].t, freq) < Min(Times(reference))
          \/ Round(rows[k].t, freq) > Max(Times(reference))

\* the column spans the timeline and holds the value v everywhere
AllOver(col, v) == Len(col) = Len(aligned.index) /\ \A i \in 1..Len(col) : col[i] = v

\* alignment of a valid reference has completed and, for every stream that
\* satisfies Out, the stream's column spans the timeline, all 0 or all null
EmptyColumns(Out(_)) ==
    (pc = "align_done" /\ validation = "ok" /\ ~HasDuplicateIndex(reference)) =>
        /\ align_result = "ok"
        /\ Len(aligned.index) >= 1
        /\ Out(cleaned.carbs) => AllOver(aligned.carbs, 0)
        /\ Out(cleaned.insulin) => AllOver(aligned.basal, 0) /\ AllOver(aligned.bolus, 0)
        /\ Out(cleaned.notes) => AllOver(aligned.notes, NaN)

\* C20 as stated: when every timestamp of a stream lies outside the reference
\* time range, alignment completes and the stream's column spans the timeline,
\* all 0 for carbohydrates and insulin, all null for notes.
C20_OutOfRangeStreamEmptyColumn == EmptyColumns(OutsideRange)

\* C20 amended: the same, when every timestamp of the stream rounds to an
\* instant outside the reference time range.
C20_RoundedOutOfRangeStreamEmptyColumn == EmptyColumns(RoundsOutsideRange)

\* carbohydrates, and in another run notes, that round outside the range of a
\* reference of several instants
C20_Witness ==
    /\ pc = "align_done"
    /\ align_result = "ok"
    /\ Len(aligned.index) >= 2
    /\ \/ RoundsOutsideRange(cleaned.carbs) /\ RoundsOutsideRange(cleaned.insulin)
       \/ RoundsOutsideRange(cleaned.notes)

----------------------------------------------------------------------------
(* Further properties of the meal-quality classifier *)

----------------------------------------------------------------------------
(* Properties of the insulin cleaner *)

\* the rows of result_df at instant t
ResultAt(t) == {i \in 1..Len(insulin_result) : insulin_result[i].t = t}

\* C23: a positive dose without a recognised metadata label is marked bolus
\* exactly when dose <= bolus_limit and basal exactly when
\* bolus_limit < dose <= max_limit; a dose above max_limit is not in the
\* cleaned output.
C23_DoseClassification ==
    pc = "insulin_done" =>
        \A k \in 1..Len(insulin_raw) :
            LET r == insulin_raw[k]
            IN  (r.value > 0 /\ ExtractMetaInfo(r.meta).type = "") =>
                    IF r.value > max_limit
                    THEN ResultAt(r.t) = {}
                    ELSE /\ Cardinality(ResultAt(r.t)) = 1
                         /\ \A i \in ResultAt(r.t) :
                                /\ insulin_result[i].dose = r.value
                                /\ insulin_result[i].is_bolus <=> (r.value <= bolus_limit)
                                /\ insulin_result[i].is_basal <=>
                                       (r.value > bolus_limit /\ r.value <= max_limit)

\* an unlabelled dose exactly at bolus_limit and one above max_limit were cleaned
C23_Witness ==
    /\ pc = "insulin_done"
    /\ \E k \in 1..Len(insulin_raw) :
           insulin_raw[k].value = bolus_limit /\ insulin_raw[k].meta = ""
    /\ \E k \in 1..Len(insulin_raw) :
           insulin_raw[k].value > max_limit /\ insulin_raw[k].meta = ""

----------------------------------------------------------------------------
(* Properties of the carbohydrate cleaner *)

\* the raw rows that hold an entry of at least 1 g in some column
ValidCarbRows ==
    {i \in 1..Len(carbs_raw) : carbs_raw[i].primary >= 1 \/ carbs_raw[i].second >= 1}

\* the first of the valid raw rows at instant t
FirstValidAt(t) ==
    CHOOSE i \in ValidCarbRows :
        /\ carbs_raw[i].t = t
        /\ \A j \in ValidCarbRows : carbs_raw[j].t = t => i <= j

\* C24: the cleaned carbohydrate table has at most one row per timestamp,
\* and the row kept for a timestamp is the first of the rows that share it.
C24_CleanedCarbsUniqueKeepFirst ==
    pc = "carbs_done" =>
        /\ \A i, j \in 1..Len(carbs_result) :
               carbs_result[i].t = carbs_result[j].t => i = j
        /\ {carbs_result[i].t : i \in 1..Len(carbs_result)}
               = {carbs_raw[i].t : i \in ValidCarbRows}
        /\ \A i \in 1..Len(carbs_result) :
               LET first == carbs_raw[FirstValidAt(carbs_result[i].t)]
               IN  /\ carbs_result[i].primary = MaskValue(first.primary)
                   /\ carbs_result[i].second = MaskValue(first.second)

\* two valid entries with different amounts shared a timestamp
C24_Witness ==
    /\ pc = "carbs_done"
    /\ \E i, j \in ValidCarbRows :
           /\ i < j
           /\ carbs_raw[i].t = carbs_raw[j].t
           /\ carbs_raw[i].primary >= 1
           /\ carbs_raw[j].primary >= 1
           /\ carbs_raw[i].primary # carbs_raw[j].primary

----------------------------------------------------------------------------
(* Properties of a pipeline run *)

\* C25: the stages run in the order cleaner, aligner, gap detector,
\* interpolation, classifier, and the gap inventory holds every null run of
\* the reindexed glucose column as it was before any value was filled in.
C25_GapDetectorBeforeInterpolation ==
    pc = "pipeline_done" =>
        /\ stages = <<"cleaner", "aligner", "gap detector", "interpolation", "classifier">>
        /\ gaps_df = GapInventory(reindexed, aligned.index, GridMinutes)

----------------------------------------------------------------------------
(* Frame and boundary of the interpolation pass of CGMProcessor.process_type *)

\* position i lies in a run of missing values of at most limit cells that has
\* a known value on both sides
InShortInnerGap(col, i, limit) ==
    \E run \in NullRuns(col) :
        /\ i \in run[1]..run[2]
        /\ RunLength(run) <= limit
        /\ run[1] > 1
        /\ run[2] < Len(col)

\* C26: the interpolation pass changes only glucose cells, and their
\* interpolated flags, inside gaps of at most the configured limit: every
\* measured value and every cell of a longer gap is the same before and after.
C26_InterpolationChangesOnlyShortGaps ==
    pc = "cgm_done" =>
        \A i \in 1..Len(reindexed) :
            (filled[i] # reindexed[i] \/ interpolated[i]) =>
                InShortInnerGap(reindexed, i, interpolation_limit)

\* position i lies in the run of missing values that closes the column
InTrailingRun(col, i) == \A j \in i..Len(col) : col[j] = NaN

\* C27: a run of missing glucose values at the end of the series is never
\* interpolated: no value is produced after the last known reading.
C27_TrailingGapStaysNull ==
    pc = "cgm_done" =>
        \A i \in 1..Len(reindexed) :
            InTrailingRun(reindexed, i) => filled[i] = NaN /\ cgm_primary[i] = NaN

----------------------------------------------------------------------------
(* Properties of the processor registry *)

\* C28: no mutable state is shared between pipeline instances: when one run
\* registers or replaces the processor of a data type, the processor that
\* another DataProcessor instance resolves for that type does not change.
C28_RegistrationStaysWithinInstance ==
    [][\A i \in Instances, d \in DataTypes, c \in ProcessorClasses :
          RegisterProcessor(i, d, c) =>
              \A j \in Instances \ {i} : Lookup(j, d)' = Lookup(j, d)]_vars

----------------------------------------------------------------------------
(* Frame and error behaviour of Aligner.align *)

\* C29: after align returns or raises, every cleaned table that was passed in
\* (carbohydrates, insulin, notes) has the index and the values it had before
\* the call.
C29_InputsUnchanged ==
    pc = "align_done" =>
        /\ carbs_df = cleaned.carbs
        /\ insulin_df = cleaned.insulin
        /\ notes_df = cleaned.notes

\* C30: timeline validation returns normally or raises AlignmentError for
\* every reference table, a reference of exactly one row included.
C30_OnlyAlignmentErrorEscapes ==
    pc = "align_done" => validation \in {"ok", "AlignmentError"}

====
